---------------------------- MODULE Spec2Model ----------------------------
(***************************************************************************)
(* Model of src/src/server.js: the POST /generate-qr handler, the two QR   *)
(* generators and the logo placement arithmetic of generateQRCodeWithLogo. *)
(*                                                                         *)
(* JavaScript Numbers are IEEE-754 binary64 values.  The placement         *)
(* arithmetic (lines 43-59) is modelled bit-exactly: a Number is a dyadic  *)
(* rational n * 2^e whose significand n is an arbitrary-precision natural  *)
(* (little-endian limbs), and every /, * and - rounds to nearest, ties to  *)
(* even, at 53 significant bits.                                           *)
(***************************************************************************)
EXTENDS Integers, Sequences, FiniteSets, TLC

(***************************************************************************)
(* Arbitrary-precision naturals: little-endian sequences of limbs in       *)
(* 0..Base-1 without high zero limbs; zero is <<>>.                        *)
(***************************************************************************)
Base == 4096
LimbBits == 12
MantBits == 53

RECURSIVE Pow2(_)
Pow2(k) == IF k = 0 THEN 1 ELSE 2 * Pow2(k - 1)

RECURSIVE BNorm(_)
BNorm(a) ==
    IF a = <<>> THEN <<>>
    ELSE IF a[Len(a)] = 0 THEN BNorm(SubSeq(a, 1, Len(a) - 1))
    ELSE a

RECURSIVE BFromNat(_)
BFromNat(k) == IF k = 0 THEN <<>> ELSE <<k % Base>> \o BFromNat(k \div Base)

RECURSIVE BToNat(_)
BToNat(a) == IF a = <<>> THEN 0 ELSE a[1] + Base * BToNat(Tail(a))

RECURSIVE BAddC(_, _, _)
BAddC(a, b, c) ==
    IF a = <<>> /\ b = <<>> THEN (IF c = 0 THEN <<>> ELSE <<c>>)
    ELSE LET x == IF a = <<>> THEN 0 ELSE a[1]
             y == IF b = <<>> THEN 0 ELSE b[1]
             s == x + y + c
             ta == IF a = <<>> THEN <<>> ELSE Tail(a)
             tb == IF b = <<>> THEN <<>> ELSE Tail(b)
         IN  <<s % Base>> \o BAddC(ta, tb, s \div Base)

BAdd(a, b) == BAddC(a, b, 0)

\* a - b - c for a >= b + c
RECURSIVE BSubC(_, _, _)
BSubC(a, b, c) ==
    IF a = <<>> THEN <<>>
    ELSE LET y == IF b = <<>> THEN 0 ELSE b[1]
             d == a[1] - y - c
             tb == IF b = <<>> THEN <<>> ELSE Tail(b)
         IN  IF d < 0 THEN <<d + Base>> \o BSubC(Tail(a), tb, 1)
             ELSE <<d>> \o BSubC(Tail(a), tb, 0)

BSub(a, b) == BNorm(BSubC(a, b, 0))

\* -1, 0, 1 as a < b, a = b, a > b
RECURSIVE BCmpFrom(_, _, _)
BCmpFrom(a, b, i) ==
    IF i = 0 THEN 0
    ELSE IF a[i] < b[i] THEN -1
    ELSE IF a[i] > b[i] THEN 1
    ELSE BCmpFrom(a, b, i - 1)

BCmp(a, b) ==
    IF Len(a) < Len(b) THEN -1
    ELSE IF Len(a) > Len(b) THEN 1
    ELSE BCmpFrom(a, b, Len(a))

RECURSIVE BMulSmallC(_, _, _)
BMulSmallC(a, k, c) ==
    IF a = <<>> THEN BFromNat(c)
    ELSE LET p == a[1] * k + c
         IN  <<p % Base>> \o BMulSmallC(Tail(a), k, p \div Base)

\* a * k for 0 <= k <= Base
BMulSmall(a, k) == BNorm(BMulSmallC(a, k, 0))

RECURSIVE BMul(_, _)
BMul(a, b) ==
    IF b = <<>> \/ a = <<>> THEN <<>>
    ELSE LET rest == BMul(a, Tail(b))
         IN  BAdd(BMulSmall(a, b[1]), IF rest = <<>> THEN <<>> ELSE <<0>> \o rest)

\* <<floor(a / d), a mod d>> for 1 <= d <= Base: short division from limb i
\* (the high limb first) down to limb 1, with quotient q and remainder r so far.
RECURSIVE BDivModSmallFrom(_, _, _, _, _)
BDivModSmallFrom(a, d, i, q, r) ==
    IF i = 0 THEN <<BNorm(q), r>>
    ELSE BDivModSmallFrom(a, d, i - 1, <<(r * Base + a[i]) \div d>> \o q,
                          (r * Base + a[i]) % d)

BDivModSmall(a, d) == BDivModSmallFrom(a, d, Len(a), <<>>, 0)

BDivSmall(a, d) == BDivModSmall(a, d)[1]

RECURSIVE ZeroLimbs(_)
ZeroLimbs(k) == IF k = 0 THEN <<>> ELSE <<0>> \o ZeroLimbs(k - 1)

\* a * 2^s
BShl(a, s) ==
    IF a = <<>> THEN <<>>
    ELSE ZeroLimbs(s \div LimbBits) \o BMulSmall(a, Pow2(s % LimbBits))

\* floor(a / 2^s)
BShr(a, s) ==
    LET k == s \div LimbBits
    IN  IF k >= Len(a) THEN <<>>
        ELSE BDivSmall(SubSeq(a, k + 1, Len(a)), Pow2(s % LimbBits))

RECURSIVE NatBitLen(_)
NatBitLen(k) == IF k = 0 THEN 0 ELSE 1 + NatBitLen(k \div 2)

BBitLen(a) ==
    IF a = <<>> THEN 0 ELSE LimbBits * (Len(a) - 1) + NatBitLen(a[Len(a)])

BOdd(a) == a # <<>> /\ a[1] % 2 = 1

(***************************************************************************)
(* JavaScript Number (IEEE-754 binary64), non-negative finite values in    *)
(* the normal range: [n |-> significand, e |-> exponent], value n * 2^e,   *)
(* with n of exactly MantBits bits, or n = <<>> for zero.                  *)
(***************************************************************************)
Zero == [n |-> <<>>, e |-> 0]

\* A significand r that rounding carried to MantBits + 1 bits is renormalised.
Carry(r, e) ==
    IF BBitLen(r) > MantBits THEN [n |-> BShr(r, 1), e |-> e + 1]
    ELSE [n |-> r, e |-> e]

\* q is the kept significand, c compares the dropped bits with one half.
RoundUp(q, c) ==
    IF c = 1 \/ (c = 0 /\ BOdd(q)) THEN BAdd(q, <<1>>) ELSE q

\* Drop the low s >= 1 bits of n, rounding to nearest, ties to even.
RoundDrop(n, e, s) ==
    Carry(RoundUp(BShr(n, s),
                  BCmp(BSub(n, BShl(BShr(n, s), s)), BShl(<<1>>, s - 1))),
          e + s)

RoundToLen(n, e, len) ==
    IF len = 0 THEN Zero
    ELSE IF len <= MantBits
    THEN [n |-> BShl(n, MantBits - len), e |-> e - (MantBits - len)]
    ELSE RoundDrop(n, e, len - MantBits)

\* The binary64 nearest to the exact dyadic value n * 2^e, ties to even.
RoundNearestEven(n, e) == RoundToLen(n, e, BBitLen(n))

\* An integer literal or integer-valued property (width, img.width, 5, 2).
Num(i) == RoundNearestEven(BFromNat(i), 0)

\* Exact comparison of two Numbers: -1, 0, 1.
NumCmp(x, y) ==
    IF x.n = <<>> THEN (IF y.n = <<>> THEN 0 ELSE -1)
    ELSE IF y.n = <<>> THEN 1
    ELSE IF x.e >= y.e THEN BCmp(BShl(x.n, x.e - y.e), y.n)
    ELSE BCmp(x.n, BShl(y.n, y.e - x.e))

NumGt(x, y) == NumCmp(x, y) = 1
NumLeq(x, y) == NumCmp(x, y) # 1

\* x * y
NumMul(x, y) ==
    IF x.n = <<>> \/ y.n = <<>> THEN Zero
    ELSE RoundNearestEven(BMul(x.n, y.n), x.e + y.e)

GuardBits == 16

\* qr = <<quotient, remainder>>: the quotient with a sticky bit below it for a
\* remainder that is not zero, rounded once.
RoundQuotient(qr, e) ==
    RoundNearestEven(BAdd(BAdd(qr[1], qr[1]), IF qr[2] = 0 THEN <<>> ELSE <<1>>),
                     e - 1)

\* x / k for an integer divisor 1 <= k < Base (every division of the source
\* divides by an integer: 5, logoWidth, logoHeight, 2), correctly rounded.
NumDivInt(x, k) ==
    IF x.n = <<>> THEN Zero
    ELSE RoundQuotient(BDivModSmall(BShl(x.n, GuardBits), k), x.e - GuardBits)

\* x - y for x >= y
NumSub(x, y) ==
    IF y.n = <<>> THEN x
    ELSE IF x.e >= y.e
    THEN RoundNearestEven(BSub(BShl(x.n, x.e - y.e), y.n), y.e)
    ELSE RoundNearestEven(BSub(x.n, BShl(y.n, y.e - x.e)), x.e)

\* Math.round: the integer nearest to x, ties towards +Infinity.
MathRound(x) ==
    IF x.n = <<>> THEN 0
    ELSE IF x.e >= 0 THEN BToNat(BShl(x.n, x.e))
    ELSE BToNat(BShr(BAdd(x.n, BShl(<<1>>, (0 - x.e) - 1)), 0 - x.e))

(***************************************************************************)
(* generateQRCodeWithLogo, lines 42-59: the size and origin of the logo    *)
(* drawn on a width x width canvas, from the image's natural size.         *)
(***************************************************************************)
Five == 5
Two == 2

\* lines 43-44: maxLogoWidth and maxLogoHeight
MaxLogoSide(width) == NumDivInt(Num(width), Five)

\* Mutant of WidthClamp: the width is clamped and the height is left as it is.
WidthClampKeepsHeight(logoWidth, logoHeight, maxLogoWidth) ==
    IF NumGt(Num(logoWidth), maxLogoWidth)
    THEN [w |-> maxLogoWidth, h |-> Num(logoHeight)]
    ELSE [w |-> Num(logoWidth), h |-> Num(logoHeight)]

\* lines 45-51: the size after the width clamp
WidthClamp(logoWidth, logoHeight, maxLogoWidth) ==
    IF NumGt(Num(logoWidth), maxLogoWidth)
    THEN [w |-> maxLogoWidth,
          h |-> NumMul(NumDivInt(Num(logoHeight), logoWidth), maxLogoWidth)]
    ELSE [w |-> Num(logoWidth), h |-> Num(logoHeight)]

\* Mutant of HeightClamp: the second clamp is missing.
HeightClampSkipped(size, logoWidth, logoHeight, maxLogoHeight) == size

\* Mutant of HeightClamp: the height is clamped and the width of the first
\* clamp is kept.
HeightClampKeepsWidth(size, logoWidth, logoHeight, maxLogoHeight) ==
    IF NumGt(size.h, maxLogoHeight)
    THEN [w |-> size.w, h |-> maxLogoHeight]
    ELSE size

\* lines 52-55: the height clamp, applied to the result of the width clamp
HeightClamp(size, logoWidth, logoHeight, maxLogoHeight) ==
    IF NumGt(size.h, maxLogoHeight)
    THEN [w |-> NumMul(NumDivInt(Num(logoWidth), logoHeight), maxLogoHeight),
          h |-> maxLogoHeight]
    ELSE size

\* lines 45-55: logoWidthFinal, logoHeightFinal
LogoFinalSize(logoWidth, logoHeight, maxLogoWidth, maxLogoHeight) ==
    HeightClamp(WidthClamp(logoWidth, logoHeight, maxLogoWidth),
                logoWidth, logoHeight, maxLogoHeight)

\* Mutant of CenterOrigin: Math.floor in place of Math.round.
CenterOriginFloor(width, side) ==
    BToNat(BShr(NumDivInt(NumSub(Num(width), side), Two).n,
                0 - NumDivInt(NumSub(Num(width), side), Two).e))

\* lines 58-59: Math.round((width - side) / 2)
CenterOrigin(width, side) == MathRound(NumDivInt(NumSub(Num(width), side), Two))

\* lines 57-62: the arguments of ctx.drawImage(img, x, y, w, h)
DrawAt(size, width) ==
    [x |-> CenterOrigin(width, size.w),
     y |-> CenterOrigin(width, size.h),
     w |-> size.w,
     h |-> size.h]

\* lines 42-62
LogoPlacement(logoWidth, logoHeight, width) ==
    DrawAt(LogoFinalSize(logoWidth, logoHeight,
                         MaxLogoSide(width), MaxLogoSide(width)), width)

(***************************************************************************)
(* The HTTP handler.  Node runs each synchronous stretch of a handler to   *)
(* completion; another request's code runs only at an await.  Each action  *)
(* below is one such stretch of app.post("/generate-qr").                  *)
(***************************************************************************)
MaxReqs == 2
MaxClock == 1

Reqs == 1..MaxReqs

\* JSON values of the request body; a field that is absent reads as undefined.
JUndefined == [t |-> "undefined", s |-> "", b |-> FALSE]
JStr(str) == [t |-> "string", s |-> str, b |-> FALSE]
JBool(bool) == [t |-> "boolean", s |-> "", b |-> bool]

\* JavaScript truthiness of a body value (line 103 "!data", line 108).
Truthy(v) == (v.t = "string" /\ v.s # "") \/ (v.t = "boolean" /\ v.b)

\* Mutant of DefaultTrue: the default is false.
DefaultFalse(v) == IF v.t = "undefined" THEN JBool(FALSE) ELSE v

\* line 101: "enableLogo = true" applies only when the field is undefined
DefaultTrue(v) == IF v.t = "undefined" THEN JBool(TRUE) ELSE v

\* Mutant of MissingData: the check of line 103 is missing.
MissingDataNever(data) == FALSE

\* line 103
MissingData(data) == ~Truthy(data)

Bodies ==
    { [data |-> JUndefined, enableLogo |-> JUndefined],
      [data |-> JStr(""), enableLogo |-> JBool(TRUE)],
      [data |-> JStr("hello"), enableLogo |-> JUndefined],
      [data |-> JStr("hello"), enableLogo |-> JBool(TRUE)],
      [data |-> JStr("hi"), enableLogo |-> JBool(FALSE)] }

\* The canvas width the handler passes on lines 110 and 112.
CanvasWidth == 400

(***************************************************************************)
(* The file system.  Paths are sequences of names.                         *)
(***************************************************************************)
AppRoot == <<"app">>
\* __dirname: the directory that holds server.js
ScriptDir == <<"app", "src">>
\* the directories node may have been started from
Cwds == {AppRoot, ScriptDir}

\* line 120: path.join(__dirname, "output")
OutputDir == ScriptDir \o <<"output">>

\* line 109 and loadImage on line 38: a relative path resolves against the
\* process working directory
LogoPath(dir) == dir \o <<"src", "images", "logo1.jpg">>

\* where the repository keeps the logo
InstalledLogo == ScriptDir \o <<"images", "logo1.jpg">>

\* line 125: `qr-code-${Date.now()}.png`
OutputFileName(millis) == <<"qr-code-", millis, ".png">>

\* line 126
OutputPath(millis) == OutputDir \o <<OutputFileName(millis)>>

\* Image files: decodable with a natural size, or not decodable.
LogoImages ==
    { [ok |-> TRUE, w |-> 200, h |-> 200],
      [ok |-> FALSE, w |-> 0, h |-> 0] }

\* loadImage (line 38) succeeds when the path names a decodable image
Loadable(imgs, path) == path \in DOMAIN imgs /\ imgs[path].ok

(***************************************************************************)
(* Encoding.  The PNG stream of a canvas stands for its pixels: the QR     *)
(* modules are a function of the data, and the logo changes the pixels of  *)
(* the rectangle it is drawn into.                                         *)
(***************************************************************************)
PngSignature == <<137, 80, 78, 71, 13, 10, 26, 10>>

Utf8(str) ==
    CASE str = "hello" -> <<104, 101, 108, 108, 111>>
      [] str = "hi" -> <<104, 105>>
      [] OTHER -> <<>>

NoLogo == [x |-> 0, y |-> 0, w |-> Zero, h |-> Zero]

\* the pixels of a canvas as bytes
Pixels(raster) ==
    Utf8(raster.data) \o
    (IF raster.logo THEN <<1, raster.at.x % 256, raster.at.y % 256>> ELSE <<0>>)

PngEncode(raster) == PngSignature \o Pixels(raster)

\* Base64: three bytes to four sextets; 64 stands for the padding "=".
RECURSIVE Base64Encode(_)
Base64Encode(bytes) ==
    IF bytes = <<>> THEN <<>>
    ELSE IF Len(bytes) = 1
    THEN <<bytes[1] \div 4, (bytes[1] % 4) * 16, 64, 64>>
    ELSE IF Len(bytes) = 2
    THEN <<bytes[1] \div 4, (bytes[1] % 4) * 16 + bytes[2] \div 16,
           (bytes[2] % 16) * 4, 64>>
    ELSE <<bytes[1] \div 4, (bytes[1] % 4) * 16 + bytes[2] \div 16,
           (bytes[2] % 16) * 4 + bytes[3] \div 64, bytes[3] % 64>>
         \o Base64Encode(SubSeq(bytes, 4, Len(bytes)))

RECURSIVE Base64Decode(_)
Base64Decode(chars) ==
    IF Len(chars) < 4 THEN <<>>
    ELSE LET b1 == chars[1] * 4 + chars[2] \div 16
             b2 == (chars[2] % 16) * 16 + chars[3] \div 4
             b3 == (chars[3] % 4) * 64 + chars[4]
             rest == SubSeq(chars, 5, Len(chars))
         IN  IF chars[3] = 64 THEN <<b1>>
             ELSE IF chars[4] = 64 THEN <<b1, b2>>
             ELSE <<b1, b2, b3>> \o Base64Decode(rest)

DataUrlPrefix == "data:image/png;base64,"

\* canvas.toDataURL("image/png"), lines 65 and 92
ToDataURL(raster) == <<DataUrlPrefix>> \o Base64Encode(PngEncode(raster))

\* line 116: replace(/^data:image\/png;base64,/, "")
StripPrefix(url) ==
    IF url # <<>> /\ url[1] = DataUrlPrefix THEN Tail(url) ELSE url

\* lines 116-117: qrCodeBuffer
QrCodeBuffer(url) == Base64Decode(StripPrefix(url))

(***************************************************************************)
(* State.                                                                  *)
(*   cwd     the process working directory                                 *)
(*   images  the image files on disk: path -> image                        *)
(*   dirs    the directories that exist                                    *)
(*   files   the files written so far: path -> bytes                       *)
(*   now     Date.now(), in milliseconds                                   *)
(*   reqs    per request: where its handler stands (pc), what it holds,    *)
(*           its response, and a record of what it has done (stages, fx)   *)
(*   lw, lh, cw, called, placed   the logo size and canvas width given to  *)
(*           one call of the placement arithmetic, and what it returned    *)
(*           (specification PlaceSpec)                                     *)
(***************************************************************************)
VARIABLES cwd, images, dirs, files, now, reqs, lw, lh, cw, called, placed

vars == <<cwd, images, dirs, files, now, reqs, lw, lh, cw, called, placed>>
placeVars == <<lw, lh, cw, called, placed>>
serverVars == <<cwd, images, dirs, files, now, reqs>>

NoBody == [data |-> JUndefined, enableLogo |-> JUndefined]
NoRaster == [data |-> "", logo |-> FALSE, at |-> NoLogo]

IdleReq ==
    [pc |-> "idle", body |-> NoBody, enableLogo |-> JUndefined,
     raster |-> NoRaster, url |-> <<>>,
     status |-> 0, error |-> "", contentType |-> "", sent |-> <<>>,
     path |-> <<>>, stages |-> <<>>, fx |-> {}, failed |-> ""]

ServerInit ==
    /\ cwd \in Cwds
    /\ images \in {<<>>} \cup {[p \in {InstalledLogo} |-> i] : i \in LogoImages}
    /\ dirs = {AppRoot, ScriptDir}
    /\ files = <<>>
    /\ now = 0
    /\ reqs = [r \in Reqs |-> IdleReq]

\* res.status(code).json({error: message}), lines 104 and 140
JsonError(req, code, message, stage) ==
    [req EXCEPT !.pc = "done", !.status = code, !.error = message,
                !.contentType = "application/json",
                !.stages = @ \o <<"responding">>, !.failed = stage]

\* the catch block of the handler, lines 138-141
Catch(req, stage) == JsonError(req, 500, "Failed to generate QR code", stage)

\* lines 133-137: the PNG response
SendPng(req, buffer) ==
    [req EXCEPT !.pc = "done", !.status = 200, !.contentType = "image/png",
                !.sent = buffer, !.stages = @ \o <<"responding">>]

\* Mutant of Receive: line 104 without its return, so that the handler goes on
\* after it has answered 400.
ReceiveNoReturn(r, body) ==
    /\ reqs[r].pc = "idle"
    /\ \A q \in Reqs : q < r => reqs[q].pc # "idle"
    /\ reqs' = [reqs EXCEPT ![r] =
            [JsonError([reqs[r] EXCEPT !.body = body,
                                       !.enableLogo = DefaultTrue(body.enableLogo),
                                       !.stages = <<"received">>],
                       IF MissingData(body.data) THEN 400 ELSE 0,
                       IF MissingData(body.data)
                       THEN "Missing required field: data" ELSE "", "")
             EXCEPT !.pc = "rendering", !.stages = @ \o <<"rendering">>,
                    !.fx = @ \cup {"toCanvas"}]]
    /\ UNCHANGED <<cwd, images, dirs, files, now, placeVars>>

\* lines 100-113 up to the first await: the request arrives, the body is
\* destructured, a request without data is answered 400, any other starts
\* QRCode.toCanvas (line 26 or line 83).
Receive(r, body) ==
    /\ reqs[r].pc = "idle"
    /\ \A q \in Reqs : q < r => reqs[q].pc # "idle"
    /\ LET req == [reqs[r] EXCEPT !.body = body,
                                  !.enableLogo = DefaultTrue(body.enableLogo),
                                  !.stages = <<"received">>]
       IN  reqs' = [reqs EXCEPT ![r] =
                IF MissingData(body.data)
                THEN JsonError(req, 400, "Missing required field: data", "")
                ELSE [req EXCEPT !.pc = "rendering",
                                 !.stages = @ \o <<"rendering">>,
                                 !.fx = @ \cup {"toCanvas"}]]
    /\ UNCHANGED <<cwd, images, dirs, files, now, placeVars>>

\* lines 107-113: which generator the handler calls
WithLogo(req) == Truthy(req.enableLogo)

\* the canvas after QRCode.toCanvas (lines 26-33, 83-90)
Rendered(req) ==
    [req EXCEPT !.raster = [data |-> req.body.data.s, logo |-> FALSE, at |-> NoLogo]]

\* canvas.toDataURL (line 65 or 92), which may throw, and the return
Encode(req, encoded) ==
    IF encoded
    THEN [req EXCEPT !.pc = "encoded", !.url = ToDataURL(req.raster),
                     !.stages = @ \o <<"encoding">>]
    ELSE Catch([req EXCEPT !.stages = @ \o <<"encoding">>], "encoding")

\* QRCode.toCanvas settles.  Rejected: the error reaches the handler's catch.
\* Resolved with a logo wanted: loadImage starts (line 38).  Resolved with no
\* logo wanted: the canvas is encoded (line 92) and the generator returns.
RenderDone(r, rendered, encoded) ==
    /\ reqs[r].pc = "rendering"
    /\ reqs' = [reqs EXCEPT ![r] =
            IF ~rendered THEN Catch(reqs[r], "rendering")
            ELSE IF WithLogo(reqs[r])
            THEN [Rendered(reqs[r]) EXCEPT !.pc = "loading",
                                           !.stages = @ \o <<"compositing">>,
                                           !.fx = @ \cup {"loadImage"}]
            ELSE Encode(Rendered(reqs[r]), encoded)]
    /\ UNCHANGED <<cwd, images, dirs, files, now, placeVars>>

\* lines 39-62: the logo drawn on the canvas at its placement
DrawLogo(req, img) ==
    [req EXCEPT !.raster = [@ EXCEPT !.logo = TRUE,
                                     !.at = LogoPlacement(img.w, img.h, CanvasWidth)],
                !.fx = @ \cup {"drawImage"}]

\* Mutant of LoadDone: a logo that cannot be loaded is left out.
LoadDoneFallback(r, encoded) ==
    /\ reqs[r].pc = "loading"
    /\ reqs' = [reqs EXCEPT ![r] =
            IF Loadable(images, LogoPath(cwd))
            THEN Encode(DrawLogo(reqs[r], images[LogoPath(cwd)]), encoded)
            ELSE Encode(reqs[r], encoded)]
    /\ UNCHANGED <<cwd, images, dirs, files, now, placeVars>>

\* lines 38-65: loadImage settles.  Rejected: the catch of lines 66-69 logs
\* and rethrows.  Resolved: the logo is drawn and the canvas is encoded.
LoadDone(r, encoded) ==
    /\ reqs[r].pc = "loading"
    /\ reqs' = [reqs EXCEPT ![r] =
            IF Loadable(images, LogoPath(cwd))
            THEN Encode(DrawLogo(reqs[r], images[LogoPath(cwd)]), encoded)
            ELSE Catch(reqs[r], "compositing")]
    /\ UNCHANGED <<cwd, images, dirs, files, now, placeVars>>

\* what fs.writeFileSync leaves behind when it throws: no file, or a file
\* holding only the beginning of the buffer
PartialWrites(buffer) == {SubSeq(buffer, 1, Len(buffer) \div 2)}

WriteFile(fs, path, bytes) ==
    [p \in DOMAIN fs \cup {path} |-> IF p = path THEN bytes ELSE fs[p]]

\* lines 119-123: the request after the directory is there
Made(req, exists, path) ==
    [req EXCEPT !.fx = IF exists THEN @ ELSE @ \cup {"mkdirSync"}, !.path = path]

\* lines 128-137: the write succeeded
Written(req, buffer) ==
    SendPng([req EXCEPT !.fx = @ \cup {"writeFileSync"}], buffer)

\* Mutant of WriteAndSend: the image is sent whether or not the write succeeded.
WriteAndSendAnyway(r, req, path, buffer, writeOk) ==
    /\ IF writeOk THEN files' = WriteFile(files, path, buffer) ELSE files' = files
    /\ reqs' = [reqs EXCEPT ![r] = Written(req, buffer)]

\* lines 125-128: fs.writeFileSync, and what follows it
WriteAndSend(r, req, path, buffer, writeOk) ==
    IF writeOk
    THEN /\ files' = WriteFile(files, path, buffer)
         /\ reqs' = [reqs EXCEPT ![r] = Written(req, buffer)]
    ELSE /\ \/ files' = files
            \/ \E part \in PartialWrites(buffer) :
                  files' = WriteFile(files, path, part)
         /\ reqs' = [reqs EXCEPT ![r] = Catch(req, "persisting")]

\* lines 115-137, one synchronous stretch: decode the data URL, make the
\* output directory if it is absent, write the file, send the image.
Persist(r, mkdirOk, writeOk) ==
    /\ reqs[r].pc = "encoded"
    /\ IF OutputDir \notin dirs /\ ~mkdirOk
       THEN /\ reqs' = [reqs EXCEPT ![r] =
                   Catch([reqs[r] EXCEPT !.stages = @ \o <<"persisting">>],
                         "persisting")]
            /\ UNCHANGED <<dirs, files>>
       ELSE /\ dirs' = dirs \cup {OutputDir}
            /\ WriteAndSend(r,
                  Made([reqs[r] EXCEPT !.stages = @ \o <<"persisting">>],
                       OutputDir \in dirs, OutputPath(now)),
                  OutputPath(now), QrCodeBuffer(reqs[r].url), writeOk)
    /\ UNCHANGED <<cwd, images, now, placeVars>>

\* a millisecond passes
Tick ==
    /\ now < MaxClock
    /\ now' = now + 1
    /\ UNCHANGED <<cwd, images, dirs, files, reqs, placeVars>>

Init ==
    /\ ServerInit
    /\ lw = 1 /\ lh = 1 /\ cw = CanvasWidth /\ called = FALSE /\ placed = NoLogo

Next ==
    \/ \E r \in Reqs, body \in Bodies : Receive(r, body)
    \/ \E r \in Reqs, rendered \in BOOLEAN, encoded \in BOOLEAN :
          RenderDone(r, rendered, encoded)
    \/ \E r \in Reqs, encoded \in BOOLEAN : LoadDone(r, encoded)
    \/ \E r \in Reqs, mkdirOk \in BOOLEAN, writeOk \in BOOLEAN :
          Persist(r, mkdirOk, writeOk)
    \/ Tick

Spec == Init /\ [][Next]_vars

(***************************************************************************)
(* The placement arithmetic on its own: one call of lines 42-59 for a logo *)
(* of lw x lh pixels on a canvas of width cw.                              *)
(***************************************************************************)
MaxSmallSide == 6

LogoSides == (1..MaxSmallSide) \cup {80, 81, 100, 200, 300}
Widths == {CanvasWidth, 20, 9}

PlaceInit ==
    /\ lw \in LogoSides /\ lh \in LogoSides /\ cw \in Widths
    /\ called = FALSE /\ placed = NoLogo
    /\ cwd = AppRoot /\ images = <<>> /\ dirs = {AppRoot, ScriptDir}
    /\ files = <<>> /\ now = 0 /\ reqs = [r \in Reqs |-> IdleReq]

Place ==
    /\ ~called
    /\ called' = TRUE
    /\ placed' = LogoPlacement(lw, lh, cw)
    /\ UNCHANGED <<lw, lh, cw, serverVars>>

PlaceNext == Place

PlaceSpec == PlaceInit /\ [][PlaceNext]_vars

(***************************************************************************)
(* Exact arithmetic on the values of Numbers, for stating properties:      *)
(* nothing here rounds.                                                    *)
(***************************************************************************)
\* x * k, exactly, for an integer 0 <= k <= Base
TimesInt(x, k) == [n |-> BMulSmall(x.n, k), e |-> x.e]

\* x * 2^k, exactly
TimesPow2(x, k) == [n |-> x.n, e |-> x.e + k]

\* x - y for x >= y, exactly
ExactSub(x, y) ==
    IF y.n = <<>> THEN x
    ELSE IF x.e >= y.e THEN [n |-> BSub(BShl(x.n, x.e - y.e), y.n), e |-> y.e]
    ELSE [n |-> BSub(x.n, BShl(y.n, y.e - x.e)), e |-> x.e]

\* |x - y|, exactly
AbsDiff(x, y) == IF NumCmp(x, y) >= 0 THEN ExactSub(x, y) ELSE ExactSub(y, x)

SameValue(x, y) == NumCmp(x, y) = 0

\* |x - y| <= 2^-51 * x: x and y agree up to the rounding of a few binary64
\* operations (each rounds by at most 2^-53 of its result)
WithinRounding(x, y) == NumLeq(TimesPow2(AbsDiff(x, y), 51), x)

\* the integer v is Math.round of the exact value (width - side) / 2:
\* v - 1/2 <= (width - side) / 2 < v + 1/2
IsCentred(v, width, side) ==
    /\ width - 2 * v + 1 >= 0
    /\ NumLeq(side, Num(width - 2 * v + 1))
    /\ width - 2 * v - 1 >= 0 => NumGt(side, Num(width - 2 * v - 1))

(***************************************************************************)
(* Properties of the placement arithmetic (specification PlaceSpec).       *)
(***************************************************************************)

\* C4: for every logo with lw >= 1 and lh >= 1 and every canvas width, the
\* scaled width and height are at most maxLogoWidth = width / 5 (the Number
\* the code computes on line 43), the origin is not negative, and the drawn
\* rectangle ends inside the canvas: x + scaledW <= W and y + scaledH <= W.
C4_LogoInsideRaster ==
    called =>
       /\ NumLeq(placed.w, MaxLogoSide(cw))
       /\ NumLeq(placed.h, MaxLogoSide(cw))
       /\ placed.x >= 0 /\ placed.y >= 0
       /\ placed.x <= cw /\ placed.y <= cw
       /\ NumLeq(placed.w, Num(cw - placed.x))
       /\ NumLeq(placed.h, Num(cw - placed.y))

\* a logo that both clamps apply to: wider than a fifth of the canvas, and
\* taller than wide
C4_Witness ==
    /\ called /\ cw = CanvasWidth /\ lw = 200 /\ lh = 300
    /\ SameValue(placed.h, Num(80))
    /\ NumGt(Num(80), placed.w)

\* C5 as claimed: the scaled size has exactly the logo's aspect ratio,
\* scaledW * lh = scaledH * lw.
C5_AspectExact ==
    called => SameValue(TimesInt(placed.w, lh), TimesInt(placed.h, lw))

\* C5 amended: the scaled size has the logo's aspect ratio up to the rounding
\* of the two binary64 operations that compute it,
\* |scaledW * lh - scaledH * lw| <= 2^-51 * scaledW * lh,
\* and exactly when neither clamp applies.
C5_AspectWithinRounding ==
    called =>
       /\ WithinRounding(TimesInt(placed.w, lh), TimesInt(placed.h, lw))
       /\ (5 * lw <= cw /\ 5 * lh <= cw) =>
             SameValue(TimesInt(placed.w, lh), TimesInt(placed.h, lw))

\* a height-clamped logo whose scaled width is not representable: 1 x 81 on
\* a canvas of 400 gives 80 * fl(1/81), which is not 80/81
C5_Witness ==
    /\ called /\ cw = CanvasWidth /\ lw = 1 /\ lh = 81
    /\ SameValue(placed.h, Num(80))
    /\ ~SameValue(TimesInt(placed.w, lh), TimesInt(placed.h, lw))

\* C7: the logo is drawn centred, x = round((W - scaledW) / 2) and
\* y = round((W - scaledH) / 2) of the exact quotients; a logo with
\* lw <= W/5 and lh <= W/5 keeps its natural size; a 200 x 200 logo on a
\* canvas of 400 is drawn 80 x 80 at x = y = 160.
C7_LogoCentred ==
    called =>
       /\ IsCentred(placed.x, cw, placed.w)
       /\ IsCentred(placed.y, cw, placed.h)
       /\ (5 * lw <= cw /\ 5 * lh <= cw) =>
             (placed.w = Num(lw) /\ placed.h = Num(lh))
       /\ (lw = 200 /\ lh = 200 /\ cw = 400) =>
             placed = [x |-> 160, y |-> 160, w |-> Num(80), h |-> Num(80)]

C7_Witness ==
    /\ called /\ lw = 200 /\ lh = 200 /\ cw = 400
    /\ placed.x = 160 /\ placed.y = 160

\* The joint fit scales both sides by s = min(1, (W/5)/lw, (W/5)/lh).  With
\* both sides within W/5, s = 1; otherwise the longer side becomes W/5 and
\* the shorter one short * W / (5 * long).  Stated without division:
\* 5 * scaledLong = W and 5 * long * scaledShort = short * W.
Agree(exactly, x, y) == IF exactly THEN SameValue(x, y) ELSE WithinRounding(x, y)

JointFit(exactly) ==
    IF 5 * lw <= cw /\ 5 * lh <= cw
    THEN SameValue(placed.w, Num(lw)) /\ SameValue(placed.h, Num(lh))
    ELSE IF lw >= lh
    THEN /\ Agree(exactly, TimesInt(placed.w, 5), Num(cw))
         /\ Agree(exactly, TimesInt(placed.h, 5 * lw), Num(lh * cw))
    ELSE /\ Agree(exactly, TimesInt(placed.h, 5), Num(cw))
         /\ Agree(exactly, TimesInt(placed.w, 5 * lh), Num(lw * cw))

\* C10 as claimed: the two sequential clamps give the same (scaledW, scaledH)
\* as the joint fit.
C10_SameAsJointFit == called => JointFit(TRUE)

\* C10 amended: the two sequential clamps give the (scaledW, scaledH) of the
\* joint fit up to the rounding of binary64 arithmetic (relative error at most
\* 2^-51), and they bind the same side to W/5 as the joint fit does.
C10_JointFitWithinRounding == called => JointFit(FALSE)

\* both clamps apply, one after the other: 5 x 6 on a canvas of 20
C10_Witness ==
    /\ called /\ cw = 20 /\ lw = 5 /\ lh = 6
    /\ SameValue(placed.h, Num(4))
    /\ NumGt(Num(4), placed.w)

(***************************************************************************)
(* Properties of the handler (specification Spec).                         *)
(***************************************************************************)
Done(r) == reqs[r].pc = "done"

\* the flag the request asks for: absent counts as true
LogoAsked(r) ==
    reqs[r].body.enableLogo.t = "undefined" \/ Truthy(reqs[r].body.enableLogo)

LogoUnloadable == ~Loadable(images, LogoPath(cwd))

StageOrder ==
    <<"received", "rendering", "compositing", "encoding", "persisting", "responding">>

Rank(stage) == CHOOSE i \in 1..Len(StageOrder) : StageOrder[i] = stage

InOrder(stages) ==
    \A i \in 1..Len(stages) : \A j \in 1..Len(stages) :
        i < j => Rank(stages[i]) < Rank(stages[j])

\* every stage of a request that nothing stops
AllStages(r) ==
    <<"received", "rendering">>
    \o (IF LogoAsked(r) THEN <<"compositing">> ELSE <<>>)
    \o <<"encoding", "persisting">>

\* C1: a request whose body has no data field is answered 400 with
\* {"error": "Missing required field: data"}, and has done nothing else: it
\* rendered nothing, loaded no logo, made no directory and wrote no file.
C1_MissingDataIs400 ==
    \A r \in Reqs :
        (reqs[r].pc # "idle" /\ reqs[r].body.data.t = "undefined") =>
           /\ Done(r)
           /\ reqs[r].status = 400
           /\ reqs[r].error = "Missing required field: data"
           /\ reqs[r].contentType = "application/json"
           /\ reqs[r].sent = <<>>
           /\ reqs[r].fx = {}
           /\ reqs[r].path = <<>>
           /\ reqs[r].stages = <<"received", "responding">>

C1_Witness ==
    \E r \in Reqs :
        /\ Done(r) /\ reqs[r].body.data.t = "undefined"
        /\ reqs[r].status = 400
        /\ OutputDir \notin dirs /\ DOMAIN files = {}

\* C2: a request with data in which rendering, logo loading, encoding,
\* directory creation or the write fails is answered 500 with
\* {"error": "Failed to generate QR code"} and never 200; when the logo is
\* wanted and cannot be loaded there is no logo-less answer; no stage runs
\* twice.
C2_FailureIs500 ==
    \A r \in Reqs :
        /\ reqs[r].failed # "" =>
              /\ Done(r)
              /\ reqs[r].status = 500
              /\ reqs[r].error = "Failed to generate QR code"
              /\ reqs[r].contentType = "application/json"
              /\ reqs[r].sent = <<>>
        /\ (Done(r) /\ Truthy(reqs[r].body.data) /\ LogoAsked(r) /\ LogoUnloadable) =>
              (reqs[r].status = 500 /\ ~reqs[r].raster.logo)
        /\ reqs[r].status = 200 =>
              /\ reqs[r].failed = ""
              /\ {"toCanvas", "writeFileSync"} \subseteq reqs[r].fx
              /\ OutputDir \in dirs
              /\ LogoAsked(r) => "drawImage" \in reqs[r].fx
        /\ \A i \in 1..Len(reqs[r].stages) : \A j \in 1..Len(reqs[r].stages) :
              i # j => reqs[r].stages[i] # reqs[r].stages[j]

\* the logo is wanted and cannot be loaded
C2_Witness ==
    \E r \in Reqs :
        /\ Done(r) /\ reqs[r].failed = "compositing" /\ LogoAsked(r)
        /\ reqs[r].status = 500
        /\ LogoUnloadable

\* the step that sends request r its 200
Sends200(r) ==
    reqs[r].pc # "done" /\ reqs'[r].pc = "done" /\ reqs'[r].status = 200

\* after the step, the file `name` of directory `dir` holds the bytes sent to r
SavedIn(dir, r) ==
    /\ dir \in dirs'
    /\ (dir \o <<OutputFileName(now)>>) \in DOMAIN files'
    /\ files'[dir \o <<OutputFileName(now)>>] = reqs'[r].sent
    /\ reqs'[r].sent # <<>>

\* C3 as claimed: every 200 comes after the write of qr-code-<unixMillis>.png
\* in the directory output/ of the process working directory, holding the
\* bytes of the response body.
C3_SavedUnderCwd ==
    [][\A r \in Reqs : Sends200(r) => SavedIn(cwd \o <<"output">>, r)]_vars

\* C3 amended: every 200 comes after the write of qr-code-<unixMillis>.png in
\* the directory output/ beside server.js (path.join(__dirname, "output"),
\* whatever the working directory), created first if absent, and the file
\* holds the bytes of the response body when the response is sent; a 200 is
\* never sent for an image that was not persisted.
C3_SavedBesideScript ==
    [][\A r \in Reqs : Sends200(r) => SavedIn(ScriptDir \o <<"output">>, r)]_vars

\* node was started from the repository root, as the logo path of line 109 needs
C3_Witness ==
    \E r \in Reqs :
        /\ Done(r) /\ reqs[r].status = 200 /\ cwd = AppRoot
        /\ reqs[r].path \in DOMAIN files
        /\ files[reqs[r].path] = reqs[r].sent

\* C6: concurrent successful requests each write their own file: no two of
\* them write the same path, and the directory holds a file for each.
C6_DistinctOutputFiles ==
    /\ \A r1 \in Reqs : \A r2 \in Reqs :
          (r1 # r2 /\ reqs[r1].status = 200 /\ reqs[r2].status = 200) =>
             reqs[r1].path # reqs[r2].path
    /\ Cardinality(DOMAIN files) >= Cardinality({r \in Reqs : reqs[r].status = 200})

\* C8: the logo is loaded and drawn exactly for the requests that want it.
\* Without enableLogo the request counts as enableLogo = true; with
\* enableLogo = false the logo is never loaded, so that a logo that cannot be
\* loaded does not fail the request.
C8_LogoIffEnabled ==
    \A r \in Reqs :
        /\ reqs[r].pc # "idle" => (WithLogo(reqs[r]) <=> LogoAsked(r))
        /\ "loadImage" \in reqs[r].fx => LogoAsked(r)
        /\ reqs[r].raster.logo <=> "drawImage" \in reqs[r].fx
        /\ reqs[r].status = 200 => (reqs[r].raster.logo <=> LogoAsked(r))
        /\ ~LogoAsked(r) =>
              /\ "loadImage" \notin reqs[r].fx
              /\ reqs[r].failed # "compositing"

\* one request without enableLogo got its logo, and a request with
\* enableLogo = false got its 200 although the logo cannot be loaded
C8_Witness ==
    \/ \E r \in Reqs :
          /\ reqs[r].body.enableLogo.t = "undefined" /\ reqs[r].status = 200
          /\ reqs[r].raster.logo /\ reqs[r].raster.at.x = 160
          /\ \E q \in Reqs : ~LogoAsked(q) /\ reqs[q].status = 200
    \/ \E r \in Reqs :
          /\ reqs[r].body.enableLogo = JBool(FALSE) /\ reqs[r].status = 200
          /\ LogoUnloadable /\ images # <<>>
          /\ \E q \in Reqs : LogoAsked(q) /\ reqs[q].failed = "compositing"

\* the stages of every request, at every moment
C9_StagesInOrder ==
    \A r \in Reqs :
        /\ InOrder(reqs[r].stages)
        /\ reqs[r].pc = "idle" <=> reqs[r].stages = <<>>
        /\ reqs[r].stages # <<>> => reqs[r].stages[1] = "received"
        /\ Done(r) <=> (reqs[r].stages # <<>>
                          /\ reqs[r].stages[Len(reqs[r].stages)] = "responding")
        /\ IF Done(r) THEN reqs[r].status \in {200, 400, 500} ELSE reqs[r].status = 0
        /\ "compositing" \in {reqs[r].stages[i] : i \in 1..Len(reqs[r].stages)}
              => LogoAsked(r)
        /\ reqs[r].status = 200 => reqs[r].stages = AllStages(r) \o <<"responding">>
        /\ reqs[r].status = 500 =>
              /\ reqs[r].stages[Len(reqs[r].stages) - 1] = reqs[r].failed
              /\ SubSeq(reqs[r].stages, 1, Len(reqs[r].stages) - 1)
                    = SubSeq(AllStages(r), 1, Len(reqs[r].stages) - 1)
        /\ reqs[r].status = 400 => reqs[r].stages = <<"received", "responding">>

\* nothing is undone and nothing is answered twice
C9_NoUndo ==
    /\ dirs \subseteq dirs'
    /\ DOMAIN files \subseteq DOMAIN files'
    /\ \A r \in Reqs : Done(r) => reqs'[r] = reqs[r]
    /\ \A r \in Reqs : Len(reqs[r].stages) <= Len(reqs'[r].stages)

\* C9: a request goes through received, rendering, (compositing), encoding,
\* persisting, responding in that order, each at most once; a failure goes
\* straight to the error response, nothing done before it is undone (a file
\* written stays), and a request that has ended has exactly one response,
\* 200, 400 or 500.
C9_Lifecycle == []C9_StagesInOrder /\ [][C9_NoUndo]_vars

\* a write failed and left its partial file behind
C9_Witness ==
    \E r \in Reqs :
        /\ reqs[r].status = 500 /\ reqs[r].failed = "persisting"
        /\ reqs[r].path \in DOMAIN files
        /\ reqs[r].stages = AllStages(r) \o <<"responding">>

=============================================================================
